---- MODULE Spec2Model ----
(***************************************************************************)
(* GraphRAGPipeline.chat (backend/app/pipelines/graph_rag.py) with the     *)
(* shared steps of BasePipeline (backend/app/pipelines/base.py), the       *)
(* cross-encoder reranker (backend/app/services/reranker.py) and the query *)
(* router (backend/app/services/query_router.py).                          *)
(*                                                                         *)
(* Scores are Python floats; they are kept here as integers in units of    *)
(* 1/Scale, so 0.25 is 2500 and 1.2 is 12000.  A Python dict is an         *)
(* insertion-ordered map: it is kept as a sequence of entries with         *)
(* pairwise distinct keys, an overwrite keeping the entry's position.      *)
(***************************************************************************)
EXTENDS Integers, Sequences, FiniteSets, TLC

\* ------------------------------------------------------------------ bounds
MaxChunk == 2
MaxHits == 2
MaxTexts == 2
MaxGraph == 2
MaxTopK == 1

\* ------------------------------------------------------- program constants
Scale == 100 * 100
min_score_threshold == 2500
graph_weight == 12000
default_top_k == 10
retrieval_multiplier == 4
FallbackTop == 3
RelevanceDirect == 10000
RelevanceKeyword == 8000

\* ----------------------------------------------------------- input domains
ChunkIds == 1..MaxChunk
NoChunk == 0
NoScore == 0 - 1
Relevances == {RelevanceKeyword, RelevanceDirect}
VectorScores == {2000, 9600, 10000}
RerankProbs == {3000, 9000}
TopKArgs == 0..MaxTopK
ToggleArgs == {"none", "on", "off"}
EntityLists == {<<>>, <<"article">>}

\* The stores are static during a request.  Articles 1..MaxChunk of the graph
\* have a paragraph whose chunk_id is the article's number; article
\* MaxChunk + 1 has no paragraph, so its chunk_id is None.  The payload text of
\* chunk 1 in the vector store is blank, and the last article with a chunk has
\* neither caption nor title in the graph.
Articles == 1..(MaxChunk + 1)
ChunkOfArticle(a) == IF a \in ChunkIds THEN a ELSE NoChunk
GraphText(a) == a # MaxChunk
StoreText(c) == c # 1

GraphResults == [art : Articles, relevance : Relevances]

VectorHits == [id : ChunkIds, score : VectorScores]

\* sequences over S of length 0..n
SeqsUpTo(S, n) == UNION {[1..k -> S] : k \in 0..n}

\* those whose elements have pairwise distinct id
DistinctSeqs(S, n) ==
    UNION {{s \in [1..k -> S] : \A i, j \in 1..k : i # j => s[i].id # s[j].id} :
              k \in 0..n}

Min(a, b) == IF a < b THEN a ELSE b

TakeAll(s, n) == s

Take(s, n) == SubSeq(s, 1, Min(n, Len(s)))

\* ------------------------------------------------------- insertion-ordered dict
Keys(d) == {d[i].id : i \in 1..Len(d)}

Get(d, k) == d[CHOOSE i \in 1..Len(d) : d[i].id = k]

PutAppends(d, k, v) == Append(d, v)

Put(d, k, v) ==
    IF k \in Keys(d)
    THEN [i \in 1..Len(d) |-> IF d[i].id = k THEN v ELSE d[i]]
    ELSE Append(d, v)

VARIABLES
    pc,               \* position of the request inside chat
    reranker,         \* self.reranker is set
    graph_service,    \* self.graph_service is set
    use_graph,        \* self.use_graph
    req,              \* arguments of the running chat call
    top_k,            \* local top_k after defaulting
    graph_mode,       \* local graph_mode
    search_texts,     \* local search_texts
    routing_query,    \* what the router's extractors find in search_texts[0]
    routed,           \* RoutedQuery returned by the router
    graph_results,    \* local graph_results
    all_results,      \* local all_results (dict chunk_id -> result)
    vector_results,   \* dict built inside _vector_search_multi
    idx,              \* loop index of _vector_search_multi
    searches,         \* vector_store.search / hybrid_search calls issued
    vector_best,      \* per chunk id, highest score any vector hit carried
    filtered_results, \* local filtered_results
    final_results,    \* local final_results
    reranked,         \* the reranker rescored the candidates
    context,          \* context blocks handed to the generator
    sources,          \* ChatResponse.sources
    translator,       \* self.translator is set
    use_multi_query,  \* self.use_multi_query
    use_hybrid_search, \* self.use_hybrid_search
    sparse_embedding, \* self.sparse_embedding is set
    hybrid_store,     \* self.hybrid_store is set
    args,             \* query, use_multi_query and use_hybrid of the chat calls
    llm,              \* how the translator's language model answers
    calls,            \* calls issued by the running request, per callee
    error,             \* origin of the exception that left chat, or "none"
    qdrant_call,      \* the running call of a retry_qdrant operation
    loader,           \* a lazily built shared handle and the threads asking for it
    agent,            \* LegalRAGState and the node of the running agent graph
    cancel_requested, \* the caller of the running chat has given up
    pipeline,         \* class of the pipeline object
    collected         \* what the last _graph_search collected, duplicates included

vars == <<pc, reranker, graph_service, use_graph, req, top_k, graph_mode,
          search_texts, routing_query, routed, graph_results, all_results,
          vector_results, idx, searches, vector_best, filtered_results,
          final_results, reranked, context, sources, translator,
          use_multi_query, use_hybrid_search, sparse_embedding, hybrid_store,
          args, llm, calls, error, qdrant_call, loader, agent,
          cancel_requested, pipeline, collected>>

\* what the constructor and the caller fix; chat never writes it
fixed == <<reranker, graph_service, use_graph, translator, use_multi_query,
           use_hybrid_search, sparse_embedding, hybrid_store, args, llm,
           pipeline>>

\* what the steps of chat leave alone: the state outside the pipeline object
\* and the chat call, and the record of the graph results collected
outside == <<qdrant_call, loader, agent, cancel_requested, collected>>

\* the pipeline object and the chat call
chat_vars == <<pc, reranker, graph_service, use_graph, req, top_k, graph_mode,
               search_texts, routing_query, routed, graph_results, all_results,
               vector_results, idx, searches, vector_best, filtered_results,
               final_results, reranked, context, sources, translator,
               use_multi_query, use_hybrid_search, sparse_embedding,
               hybrid_store, args, llm, calls, error, pipeline>>

NoRoute == [query_type |-> "none", entities |-> <<>>, use_graph |-> FALSE,
            use_vector |-> FALSE]

NoReq == [top_k |-> 0, use_graph |-> "none"]

NoQuery == [entities |-> <<>>, is_lookup |-> FALSE, is_relationship |-> FALSE]

\* ------------------------------------------------------------ query router
route_lookup_first(entities, is_lookup, is_relationship) ==
    IF entities # <<>> /\ is_lookup
    THEN [query_type |-> "entity_lookup", entities |-> entities,
          use_graph |-> TRUE, use_vector |-> FALSE]
    ELSE IF entities # <<>> /\ is_relationship
    THEN [query_type |-> "multi_hop", entities |-> entities,
          use_graph |-> TRUE, use_vector |-> TRUE]
    ELSE IF entities # <<>>
    THEN [query_type |-> "hybrid", entities |-> entities,
          use_graph |-> TRUE, use_vector |-> TRUE]
    ELSE [query_type |-> "semantic", entities |-> entities,
          use_graph |-> FALSE, use_vector |-> TRUE]

\* QueryRouter.route: the classification chain over the extractors' results
route(entities, is_lookup, is_relationship) ==
    IF entities # <<>> /\ is_lookup /\ ~is_relationship
    THEN [query_type |-> "entity_lookup", entities |-> entities,
          use_graph |-> TRUE, use_vector |-> FALSE]
    ELSE IF entities # <<>> /\ is_relationship
    THEN [query_type |-> "multi_hop", entities |-> entities,
          use_graph |-> TRUE, use_vector |-> TRUE]
    ELSE IF entities # <<>>
    THEN [query_type |-> "hybrid", entities |-> entities,
          use_graph |-> TRUE, use_vector |-> TRUE]
    ELSE [query_type |-> "semantic", entities |-> entities,
          use_graph |-> FALSE, use_vector |-> TRUE]

\* ------------------------------------------------------------ graph search
\* the deduplication loop that ends _graph_search: first result per article
RECURSIVE DedupArticles(_, _)
DedupArticles(results, unique) ==
    IF results = <<>> THEN unique
    ELSE LET r == Head(results)
         IN  DedupArticles(Tail(results),
                 IF \E i \in 1..Len(unique) : unique[i].art = r.art
                 THEN unique ELSE Append(unique, r))

\* the candidate chat builds from a GraphResult
GraphCandidate(gr) ==
    [id |-> ChunkOfArticle(gr.art),
     score |-> (gr.relevance * graph_weight) \div Scale,
     source |-> "graph",
     text |-> GraphText(gr.art),
     rerank_score |-> NoScore,
     original_score |-> NoScore]

\* for gr in graph_results: if gr.chunk_id: all_results[gr.chunk_id] = {...}
RECURSIVE InsertGraph(_, _)
InsertGraph(d, results) ==
    IF results = <<>> THEN d
    ELSE LET gr == Head(results)
         IN  InsertGraph(
                 IF ChunkOfArticle(gr.art) # NoChunk
                 THEN Put(d, ChunkOfArticle(gr.art), GraphCandidate(gr))
                 ELSE d,
                 Tail(results))

\* ----------------------------------------------------------- vector search
VectorCandidate(r) ==
    [id |-> r.id, score |-> r.score, source |-> "vector",
     text |-> StoreText(r.id),
     rerank_score |-> NoScore, original_score |-> NoScore]

ReplacesOnTie(d, k, score) == k \notin Keys(d) \/ score >= Get(d, k).score

\* the condition under which a result replaces the entry of its chunk id
Replaces(d, k, score) == k \notin Keys(d) \/ score > Get(d, k).score

\* the merge loop of _vector_search_multi over one search's results
RECURSIVE MergeHits(_, _)
MergeHits(d, results) ==
    IF results = <<>> THEN d
    ELSE LET r == Head(results)
         IN  MergeHits(
                 IF Replaces(d, r.id, r.score)
                 THEN Put(d, r.id, VectorCandidate(r))
                 ELSE d,
                 Tail(results))

\* the loop of chat that merges vector_results into all_results
RECURSIVE MergeVector(_, _)
MergeVector(d, vr) ==
    IF vr = <<>> THEN d
    ELSE LET r == Head(vr)
         IN  MergeVector(
                 IF Replaces(d, r.id, r.score) THEN Put(d, r.id, r) ELSE d,
                 Tail(vr))

\* what one vector_store.search / hybrid_search call can return
SearchOutputs(retrieve_k) ==
    {s \in DistinctSeqs(VectorHits, MaxHits) : Len(s) <= retrieve_k}

Max(a, b) == IF a > b THEN a ELSE b

RECURSIVE NoteHits(_, _)
NoteHits(best, results) ==
    IF results = <<>> THEN best
    ELSE LET r == Head(results)
         IN  NoteHits([best EXCEPT ![r.id] = Max(@, r.score)], Tail(results))

\* ------------------------------------------------------- query preparation
\* A query is kept as the classes of its characters: "jp" Hiragana, Katakana or
\* Han, "vi" any other counted character, "sp" whitespace or punctuation.
MaxQuery == 3

MaxSearchTexts == 3

QueryChars == {"jp", "vi", "sp"}

Queries == SeqsUpTo(QueryChars, MaxQuery)

\* QueryTranslator._is_japanese with its default threshold of 0.5
_is_japanese(text) ==
    LET total_chars == Cardinality({i \in 1..Len(text) : text[i] # "sp"})
        jp_chars == Cardinality({i \in 1..Len(text) : text[i] = "jp"})
    IN  total_chars # 0 /\ 2 * jp_chars >= total_chars

\* A search text is known by where it came from: the query itself, the answer
\* of the translation call, or a field of the expansion's JSON.
Text(src, n) == [src |-> src, n |-> n]

\* "search_queries": null in the expansion's JSON
NullList == 0 - 1

FailedExpansions ==
    [status : {"raise", "malformed"}, translated : {FALSE},
     search_queries : {0}, keywords : {FALSE}]

Expansions ==
    [status : {"ok"}, translated : BOOLEAN,
     search_queries : {NullList} \cup (0..MaxTexts), keywords : BOOLEAN]
        \cup FailedExpansions

LLMs == [translate : {"ok", "raise"}, expand : Expansions]

\* QueryTranslator.translate: the texts it returns, whether it raised, and the
\* calls it made to the language model
translate(query, l) ==
    IF _is_japanese(query)
    THEN [raised |-> FALSE, texts |-> <<Text("query", 0)>>, calls |-> 0]
    ELSE IF l.translate = "raise"
    THEN [raised |-> TRUE, texts |-> <<>>, calls |-> 1]
    ELSE [raised |-> FALSE, texts |-> <<Text("translation", 0)>>, calls |-> 1]

\* QueryTranslator.expand: one call, and the fallback of its except clause
expand(query, l) ==
    IF l.expand.status = "ok"
    THEN [translated |-> IF l.expand.translated THEN Text("translated", 0)
                         ELSE Text("query", 0),
          search_queries |-> l.expand.search_queries,
          keywords |-> l.expand.keywords]
    ELSE [translated |-> Text("query", 0), search_queries |-> 0,
          keywords |-> FALSE]

\* QueryTranslator.get_all_search_texts; texts.extend(None) raises TypeError
get_all_search_texts(query, l) ==
    LET expansion == expand(query, l)
    IN  IF expansion.search_queries = NullList
        THEN [raised |-> TRUE, texts |-> <<>>, calls |-> 1]
        ELSE [raised |-> FALSE,
              texts |-> <<expansion.translated>>
                        \o [i \in 1..expansion.search_queries |-> Text("search_query", i)]
                        \o (IF expansion.keywords THEN <<Text("keywords", 0)>> ELSE <<>>),
              calls |-> 1]

_translate_query_unguarded(query, has_translator, l) ==
    IF ~has_translator
    THEN [raised |-> FALSE, texts |-> <<Text("query", 0)>>, calls |-> 0]
    ELSE translate(query, l)

\* BasePipeline._translate_query
_translate_query(query, has_translator, l) ==
    IF ~has_translator
    THEN [raised |-> FALSE, texts |-> <<Text("query", 0)>>, calls |-> 0]
    ELSE LET t == translate(query, l)
         IN  IF t.raised
             THEN [raised |-> FALSE, texts |-> <<Text("query", 0)>>, calls |-> t.calls]
             ELSE t

\* BasePipeline._get_search_texts
_get_search_texts(query, multi, has_translator, l) ==
    IF multi /\ has_translator
    THEN LET g == get_all_search_texts(query, l)
         IN  [g EXCEPT !.texts = Take(g.texts, MaxSearchTexts)]
    ELSE _translate_query(query, has_translator, l)

\* multi_query_mode of chat (graph_rag.py 88)
multi_query_mode ==
    IF args.use_multi_query = "none" THEN use_multi_query
    ELSE args.use_multi_query = "on"

\* the caller's filters mapping, by its keys
Filters == {"law_id"}

ChatArgs == [query : Queries, use_multi_query : ToggleArgs, use_hybrid : ToggleArgs,
             filters : {Filters}]

\* the request and the language model of the runs of Spec: a Vietnamese query
\* with no overrides, an expansion that fails or returns one extra query
SampleArgs == [query |-> <<"vi">>, use_multi_query |-> "none", use_hybrid |-> "none",
               filters |-> Filters]

SampleLLMs ==
    {l \in LLMs : /\ l.translate = "ok"
                  /\ \/ l.expand.status = "raise"
                     \/ /\ l.expand.status = "ok"
                        /\ l.expand.translated
                        /\ l.expand.search_queries = 1
                        /\ ~l.expand.keywords}

Callees == {"translator_llm", "embed_dense", "embed_sparse", "graph_query",
            "graph_query_failed", "llm_generate"}

NoCalls == [c \in Callees |-> 0]

\* ------------------------------------------------ state outside the chat call
\* tenacity's stop_after_attempt(3) of retry_qdrant
stop_after_attempt == 3

\* no retry_qdrant operation is running
NoCall == [op |-> "none", state |-> "idle", attempts |-> <<>>, result |-> 0,
           raised |-> "none"]

MaxThreads == 2

Threads == 1..MaxThreads

\* a thread that has not asked for the handle yet
NoThread == [pc |-> "idle", new |-> 0, got |-> 0]

\* no handle chosen, nothing built
NoLoad == [handle |-> "none", instance |-> 0, constructed |-> 0,
           threads |-> [t \in Threads |-> NoThread]]

Nodes == {"translate", "retrieve", "grade", "rerank", "generate", "rewrite"}

\* no agent run
NoAgent == [node |-> "none", rewrite_count |-> 0, documents |-> 0,
            document_grades |-> <<>>, runs |-> [n \in Nodes |-> 0]]

OutsideIdle ==
    /\ qdrant_call = NoCall
    /\ loader = NoLoad
    /\ agent = NoAgent
    /\ cancel_requested = FALSE
    /\ collected = <<>>


\* chat's locals other than the ones an exception report keeps
LocalsGone ==
    /\ req' = NoReq
    /\ top_k' = 0
    /\ graph_mode' = FALSE
    /\ routing_query' = NoQuery
    /\ routed' = NoRoute
    /\ graph_results' = <<>>
    /\ all_results' = <<>>
    /\ vector_results' = <<>>
    /\ vector_best' = [c \in ChunkIds |-> NoScore]
    /\ filtered_results' = <<>>
    /\ final_results' = <<>>
    /\ reranked' = FALSE
    /\ context' = <<>>
    /\ sources' = <<>>

Init ==
    /\ pc = "idle"
    /\ reranker \in BOOLEAN
    /\ graph_service \in BOOLEAN
    /\ use_graph = graph_service
    /\ req = NoReq
    /\ top_k = 0
    /\ graph_mode = FALSE
    /\ search_texts = <<>>
    /\ routing_query = NoQuery
    /\ routed = NoRoute
    /\ graph_results = <<>>
    /\ all_results = <<>>
    /\ vector_results = <<>>
    /\ idx = 0
    /\ searches = 0
    /\ vector_best = [c \in ChunkIds |-> NoScore]
    /\ filtered_results = <<>>
    /\ final_results = <<>>
    /\ reranked = FALSE
    /\ context = <<>>
    /\ sources = <<>>
    /\ translator = TRUE
    /\ use_multi_query = TRUE
    /\ use_hybrid_search = TRUE
    /\ sparse_embedding = TRUE
    /\ hybrid_store = TRUE
    /\ args = SampleArgs
    /\ llm \in SampleLLMs
    /\ calls = NoCalls
    /\ error = "none"
    /\ pipeline = "GraphRAGPipeline"
    /\ OutsideIdle

\* chat entry: top_k defaulting and mode selection (graph_rag.py 83-99)
ChatStart ==
    /\ pc = "idle"
    /\ \E k \in TopKArgs, g \in ToggleArgs :
          /\ req' = [top_k |-> k, use_graph |-> g]
          /\ top_k' = IF k = 0 THEN default_top_k ELSE k
          /\ graph_mode' = IF g = "none" THEN use_graph ELSE g = "on"
    /\ pc' = "start"
    /\ UNCHANGED <<fixed, outside, search_texts, routing_query, routed, graph_results,
                   all_results, vector_results, idx, searches, vector_best,
                   filtered_results, final_results, reranked, context, sources,
                   calls, error>>

\* step 1: the search texts; the first one is the routing query.  An
\* exception of get_all_search_texts is not caught and leaves chat.
Prepare ==
    /\ pc = "start"
    /\ LET plan == IF multi_query_mode
                   THEN _get_search_texts(args.query, use_multi_query, translator, llm)
                   ELSE _translate_query(args.query, translator, llm)
       IN  /\ calls' = [calls EXCEPT !["translator_llm"] = @ + plan.calls]
           /\ search_texts' = plan.texts
           /\ IF plan.raised
              THEN /\ pc' = "raised"
                   /\ error' = "prepare"
                   /\ LocalsGone
              ELSE /\ pc' = "prepared"
                   /\ \E e \in EntityLists, l \in BOOLEAN, r \in BOOLEAN :
                         routing_query' = [entities |-> e, is_lookup |-> l,
                                           is_relationship |-> r]
                   /\ UNCHANGED <<req, top_k, graph_mode, routed, graph_results,
                                  all_results, vector_results, vector_best,
                                  filtered_results, final_results, reranked,
                                  context, sources, error>>
    /\ UNCHANGED <<fixed, outside, idx, searches>>

route_override_on_self(mode, self_use_graph, query_type) ==
    [graph_mode |-> mode,
     self_use_graph |-> IF query_type = "semantic" THEN FALSE
                        ELSE IF query_type = "entity_lookup" THEN TRUE
                        ELSE self_use_graph]

\* the route's override (graph_rag.py 117-123) assigns the local graph_mode;
\* the field self.use_graph keeps its value
route_override(mode, self_use_graph, query_type) ==
    [graph_mode |-> IF query_type = "semantic" THEN FALSE
                    ELSE IF query_type = "entity_lookup" THEN TRUE
                    ELSE mode,
     self_use_graph |-> self_use_graph]

\* step 2: routing, and the route's override of graph_mode
Route ==
    /\ pc = "prepared"
    /\ routed' = route(routing_query.entities, routing_query.is_lookup,
                       routing_query.is_relationship)
    /\ LET after == route_override(graph_mode, use_graph, routed'.query_type)
       IN  /\ graph_mode' = after.graph_mode
           /\ use_graph' = after.self_use_graph
    /\ pc' = "routed"
    /\ UNCHANGED <<reranker, graph_service, translator, use_multi_query,
                   use_hybrid_search, sparse_embedding, hybrid_store, args,
                   llm, pipeline, outside, req, top_k, search_texts,
                   routing_query, graph_results, all_results, vector_results,
                   idx, searches, vector_best, filtered_results, final_results,
                   reranked, context, sources, calls, error>>

GraphGuard == graph_mode /\ graph_service /\ routed.entities # <<>>

\* What the graph client does with the queries of one entity: it raises, or
\* the service builds these results from the rows.
EntityOutcomes ==
    {o \in [raised : BOOLEAN, results : SeqsUpTo(GraphResults, MaxGraph)] :
        o.raised => o.results = <<>>}

graph_service_call_unguarded(outcome) ==
    [raised |-> outcome.raised, results |-> outcome.results]

\* find_article, find_related_articles, search_by_keyword: the client's
\* exception is caught and logged, and nothing is returned for the query
graph_service_call(outcome) ==
    [raised |-> FALSE, results |-> IF outcome.raised THEN <<>> ELSE outcome.results]

\* the loop of _graph_search over the entities, from entity i on
RECURSIVE GraphLoop(_, _, _)
GraphLoop(outcomes, i, acc) ==
    IF i > Len(outcomes) THEN acc
    ELSE LET got == graph_service_call(outcomes[i])
             next == [raised |-> got.raised,
                      results |-> acc.results \o got.results,
                      queries |-> acc.queries + 1,
                      failed |-> acc.failed + (IF outcomes[i].raised THEN 1 ELSE 0)]
         IN  IF got.raised THEN next ELSE GraphLoop(outcomes, i + 1, next)

\* GraphRAGPipeline._graph_search
_graph_search(entities, outcomes) ==
    LET g == GraphLoop(outcomes, 1,
                 [raised |-> FALSE, results |-> <<>>, queries |-> 0, failed |-> 0])
    IN  [g EXCEPT !.results = DedupArticles(g.results, <<>>)]

\* step 3, taken: _graph_search and the insertion of its results
GraphSearch ==
    /\ pc = "routed"
    /\ GraphGuard
    /\ \E outcomes \in [1..Len(routed.entities) -> EntityOutcomes] :
          LET g == _graph_search(routed.entities, outcomes)
          IN  /\ calls' = [calls EXCEPT !["graph_query"] = @ + g.queries,
                                        !["graph_query_failed"] = @ + g.failed]
              /\ IF g.raised
                 THEN /\ pc' = "raised"
                      /\ error' = "graph"
                      /\ LocalsGone
                 ELSE /\ pc' = "graphed"
                      /\ graph_results' = g.results
                      /\ all_results' = InsertGraph(all_results, graph_results')
                      /\ UNCHANGED <<req, top_k, graph_mode, routing_query,
                                     routed, vector_results, vector_best,
                                     filtered_results, final_results, reranked,
                                     context, sources, error>>
    /\ UNCHANGED <<fixed, outside, search_texts, idx, searches>>

\* step 3, skipped
GraphSkip ==
    /\ pc = "routed"
    /\ ~GraphGuard
    /\ pc' = "graphed"
    /\ UNCHANGED <<fixed, outside, req, top_k, graph_mode, search_texts, routing_query,
                   routed, graph_results, all_results, vector_results, idx,
                   searches, vector_best, filtered_results, final_results,
                   reranked, context, sources, calls, error>>

\* ---------------------------------------------------------------- embedding
_can_hybrid == use_hybrid_search /\ sparse_embedding /\ hybrid_store

\* can_hybrid of chat (graph_rag.py 89)
can_hybrid ==
    (IF args.use_hybrid = "none" THEN use_hybrid_search ELSE args.use_hybrid = "on")
        /\ _can_hybrid

_embed_queries_per_text(texts, hybrid) ==
    [dense |-> Len(texts), sparse |-> IF hybrid /\ sparse_embedding THEN Len(texts) ELSE 0]

\* BasePipeline._embed_queries: the embed_batch calls it makes
_embed_queries(texts, hybrid) ==
    [dense |-> 1, sparse |-> IF hybrid /\ sparse_embedding THEN 1 ELSE 0]

\* step 4: batch embedding of all search texts
Embed ==
    /\ pc = "graphed"
    /\ LET made == _embed_queries(search_texts, can_hybrid)
       IN  calls' = [calls EXCEPT !["embed_dense"] = @ + made.dense,
                                  !["embed_sparse"] = @ + made.sparse]
    /\ pc' = "search"
    /\ idx' = 1
    /\ UNCHANGED <<fixed, outside, req, top_k, graph_mode, search_texts, routing_query,
                   routed, graph_results, all_results, vector_results,
                   searches, vector_best, filtered_results, final_results,
                   reranked, context, sources, error>>

retrieve_k == IF reranker THEN top_k * retrieval_multiplier ELSE top_k * 2

\* step 5: one iteration of the loop of _vector_search_multi.  The search call
\* is not guarded: when it raises, the exception leaves chat.
VectorSearch ==
    /\ pc = "search"
    /\ idx <= Len(search_texts)
    /\ searches' = searches + 1
    /\ \/ /\ \E results \in SearchOutputs(retrieve_k) :
                /\ vector_results' = MergeHits(vector_results, results)
                /\ vector_best' = NoteHits(vector_best, results)
          /\ idx' = idx + 1
          /\ UNCHANGED <<pc, req, top_k, graph_mode, routing_query, routed,
                         graph_results, all_results, filtered_results,
                         final_results, reranked, context, sources, error>>
       \/ /\ pc' = "raised"
          /\ error' = "vector"
          /\ LocalsGone
          /\ UNCHANGED idx
    /\ UNCHANGED <<fixed, outside, search_texts, calls>>

\* step 5, end: _vector_search_multi returns and chat merges into all_results
Fuse ==
    /\ pc = "search"
    /\ idx > Len(search_texts)
    /\ all_results' = MergeVector(all_results, vector_results)
    /\ pc' = "fused"
    /\ UNCHANGED <<fixed, outside, req, top_k, graph_mode, search_texts, routing_query,
                   routed, graph_results, vector_results, idx, searches,
                   vector_best, filtered_results, final_results, reranked,
                   context, sources, calls, error>>

\* ---------------------------------------------------------- filter and sort
SortAscBy(s, key) ==
    LET Pos(i) == 1 + Cardinality({j \in 1..Len(s) : key[j] < key[i]})
                    + Cardinality({j \in 1..(i - 1) : key[j] = key[i]})
    IN  [p \in 1..Len(s) |-> s[CHOOSE i \in 1..Len(s) : Pos(i) = p]]

\* sorted(s, key=..., reverse=True), key[i] being the key of s[i]: descending,
\* elements of equal key keep their order
SortDescBy(s, key) ==
    LET Pos(i) == 1 + Cardinality({j \in 1..Len(s) : key[j] > key[i]})
                    + Cardinality({j \in 1..(i - 1) : key[j] = key[i]})
    IN  [p \in 1..Len(s) |-> s[CHOOSE i \in 1..Len(s) : Pos(i) = p]]

ScoreOf(s) == [i \in 1..Len(s) |-> s[i].score]

RerankScoreOf(s) == [i \in 1..Len(s) |-> s[i].rerank_score]

StrictlyAboveThreshold(r) == r.score > min_score_threshold

AboveThreshold(r) == r.score >= min_score_threshold

\* BasePipeline._filter_and_sort_results over the dict's values
_filter_and_sort_results(d) ==
    LET sorted_results == SortDescBy(d, ScoreOf(d))
        above == SelectSeq(sorted_results, AboveThreshold)
    IN  IF above = <<>> THEN Take(sorted_results, FallbackTop) ELSE above

FilterAndSort ==
    /\ pc = "fused"
    /\ filtered_results' = _filter_and_sort_results(all_results)
    /\ pc' = "filtered"
    /\ UNCHANGED <<fixed, outside, req, top_k, graph_mode, search_texts, routing_query,
                   routed, graph_results, all_results, vector_results, idx,
                   searches, vector_best, final_results, reranked, context,
                   sources, calls, error>>

\* ------------------------------------------------------------------ rerank
HasText(doc) == doc.text

ScoredDocsUnnormalised(valid, probs) ==
    LET scored == [i \in 1..Len(valid) |->
                      [valid[i] EXCEPT !.rerank_score = probs[i],
                                       !.original_score = valid[i].score,
                                       !.score = probs[i]]]
    IN  SortDescBy(scored, RerankScoreOf(scored))

\* the copies BGEReranker.rerank scores, sorts and normalises
ScoredDocs(valid, probs) ==
    LET scored == [i \in 1..Len(valid) |->
                      [valid[i] EXCEPT !.rerank_score = probs[i],
                                       !.original_score = valid[i].score,
                                       !.score = probs[i]]]
        ranked == SortDescBy(scored, RerankScoreOf(scored))
        max_score == ranked[1].rerank_score
    IN  IF max_score > 0
        THEN [i \in 1..Len(ranked) |->
                 [ranked[i] EXCEPT !.score = (ranked[i].rerank_score * Scale) \div max_score]]
        ELSE ranked

\* BGEReranker.rerank; failed: model.predict raised; probs: sigmoid of its logits
rerank(documents, k, failed, probs) ==
    LET valid == SelectSeq(documents, HasText)
    IN  IF documents = <<>> THEN <<>>
        ELSE IF valid = <<>> \/ failed THEN Take(documents, k)
        ELSE Take(ScoredDocs(valid, probs), k)

\* step 6 with a reranker: _rerank_results
Rerank ==
    /\ pc = "filtered"
    /\ reranker
    /\ LET valid == SelectSeq(filtered_results, HasText)
       IN  \E failed \in BOOLEAN, probs \in [1..Len(valid) -> RerankProbs] :
              /\ final_results' = rerank(filtered_results, top_k, failed, probs)
              /\ reranked' = (valid # <<>> /\ ~failed)
    /\ pc' = "final"
    /\ UNCHANGED <<fixed, outside, req, top_k, graph_mode, search_texts, routing_query,
                   routed, graph_results, all_results, vector_results, idx,
                   searches, vector_best, filtered_results, context, sources,
                   calls, error>>

\* step 6 without a reranker: filtered_results[:top_k]
Truncate ==
    /\ pc = "filtered"
    /\ ~reranker
    /\ final_results' = Take(filtered_results, top_k)
    /\ pc' = "final"
    /\ UNCHANGED <<fixed, outside, req, top_k, graph_mode, search_texts, routing_query,
                   routed, graph_results, all_results, vector_results, idx,
                   searches, vector_best, filtered_results, reranked, context,
                   sources, calls, error>>

\* ------------------------------------------------------- context and sources
\* the payload of a candidate is the payload of its chunk in the retriever
\* that produced it
PayloadOf(r) == [chunk |-> r.id, source |-> r.source, text |-> r.text]

_build_context_from_zero(results) ==
    [i \in 1..Len(results) |-> [idx |-> i - 1, payload |-> PayloadOf(results[i])]]

\* BasePipeline._build_context: block idx is numbered [idx]
_build_context(results) ==
    [i \in 1..Len(results) |-> [idx |-> i, payload |-> PayloadOf(results[i])]]

\* BasePipeline._to_source_document
_to_source_document(r) == [payload |-> PayloadOf(r), score |-> r.score]

\* step 7 and the response
Generate ==
    /\ pc = "final"
    /\ context' = _build_context(final_results)
    /\ calls' = [calls EXCEPT !["llm_generate"] = @ + 1]
    /\ sources' = [i \in 1..Len(final_results) |-> _to_source_document(final_results[i])]
    /\ pc' = "done"
    /\ UNCHANGED <<fixed, outside, req, top_k, graph_mode, search_texts, routing_query,
                   routed, graph_results, all_results, vector_results, idx,
                   searches, vector_best, filtered_results, final_results,
                   reranked, error>>

\* chat has returned; its locals are gone and the pipeline serves the next call
Return ==
    /\ pc = "done"
    /\ pc' = "idle"
    /\ LocalsGone
    /\ search_texts' = <<>>
    /\ idx' = 0
    /\ searches' = 0
    /\ calls' = NoCalls
    /\ error' = "none"
    /\ UNCHANGED <<fixed, outside>>

\* the exception has reached the caller of chat
Raise ==
    /\ pc = "raised"
    /\ pc' = "idle"
    /\ LocalsGone
    /\ search_texts' = <<>>
    /\ idx' = 0
    /\ searches' = 0
    /\ calls' = NoCalls
    /\ error' = "none"
    /\ UNCHANGED <<fixed, outside>>

Next ==
    \/ ChatStart
    \/ Prepare
    \/ Route
    \/ GraphSearch
    \/ GraphSkip
    \/ Embed
    \/ VectorSearch
    \/ Fuse
    \/ FilterAndSort
    \/ Rerank
    \/ Truncate
    \/ Generate
    \/ Return
    \/ Raise

Spec == Init /\ [][Next]_vars

\* ------------------------------------------- _filter_and_sort_results alone
\* Candidate maps of up to MaxFilterChunk entries, in any insertion order, with
\* scores below, at and above min_score_threshold.
MaxFilterChunk == 4

FilterScores == {1000, 2000, min_score_threshold, 9600}

FilterCandidates ==
    [id : 1..MaxFilterChunk, score : FilterScores, source : {"vector"},
     text : {TRUE}, rerank_score : {NoScore}, original_score : {NoScore}]

FilterInputs == DistinctSeqs(FilterCandidates, MaxFilterChunk)

InitFilter ==
    /\ pc = "fused"
    /\ all_results \in FilterInputs
    /\ reranker = FALSE
    /\ graph_service = FALSE
    /\ use_graph = FALSE
    /\ req = NoReq
    /\ top_k = default_top_k
    /\ graph_mode = FALSE
    /\ search_texts = <<>>
    /\ routing_query = NoQuery
    /\ routed = NoRoute
    /\ graph_results = <<>>
    /\ vector_results = <<>>
    /\ idx = 0
    /\ searches = 0
    /\ vector_best = [c \in ChunkIds |-> NoScore]
    /\ filtered_results = <<>>
    /\ final_results = <<>>
    /\ reranked = FALSE
    /\ context = <<>>
    /\ sources = <<>>
    /\ translator = FALSE
    /\ use_multi_query = FALSE
    /\ use_hybrid_search = FALSE
    /\ sparse_embedding = FALSE
    /\ hybrid_store = FALSE
    /\ args = SampleArgs
    /\ llm \in SampleLLMs
    /\ calls = NoCalls
    /\ error = "none"
    /\ pipeline = "GraphRAGPipeline"
    /\ OutsideIdle

SpecFilter == InitFilter /\ [][FilterAndSort]_vars

\* ---------------------------------------------------- entity extraction alone
\* A text is kept as a sequence of characters of seven kinds: "ho" is 法, "dai"
\* is 第, "jo" is 条, "no" is の, "k" any other character of the class
\* [ぁ-んァ-ン一-龯], "1" a digit, "x" any character outside the class.
MaxText == 6

TextChars == {"k", "ho", "dai", "jo", "no", "1", "x"}

InClass(c) == c \in {"k", "ho", "dai", "jo", "no"}

Texts == SeqsUpTo(TextChars, MaxText)

At(t, i) == IF i \in 1..Len(t) THEN t[i] ELSE "end"

\* last index of the run of digits that starts at i, 0 when t[i] is no digit
DigitsEnd(t, i) ==
    IF At(t, i) # "1" THEN 0
    ELSE CHOOSE e \in i..Len(t) :
            /\ \A j \in i..e : t[j] = "1"
            /\ At(t, e + 1) # "1"

\* end of 第(\d+)条 matched at p, 0 when it does not match there
ArticleEnd(t, p) ==
    LET d == DigitsEnd(t, p + 1)
    IN  IF At(t, p) = "dai" /\ d # 0 /\ At(t, d + 1) = "jo" THEN d + 1 ELSE 0

\* end of the match of a pattern at p, 0 when the pattern does not match at p
MatchEnd(pattern, t, p) ==
    IF pattern = "law_article"
    THEN \* ([class]+法)第(\d+)条
         LET H == {h \in (p + 1)..Len(t) :
                      /\ \A j \in p..h : InClass(t[j])
                      /\ t[h] = "ho"
                      /\ ArticleEnd(t, h + 1) # 0}
         IN  IF H = {} THEN 0
             ELSE ArticleEnd(t, (CHOOSE h \in H : \A g \in H : g <= h) + 1)
    ELSE IF pattern = "article_only"
    THEN \* 第(\d+)条(?:の(\d+))?
         LET e == ArticleEnd(t, p)
             d == DigitsEnd(t, e + 2)
         IN  IF e = 0 THEN 0
             ELSE IF At(t, e + 1) = "no" /\ d # 0 THEN d ELSE e
    ELSE \* ([class]+法)
         LET H == {h \in (p + 1)..Len(t) :
                      /\ \A j \in p..h : InClass(t[j])
                      /\ t[h] = "ho"}
         IN  IF H = {} THEN 0 ELSE CHOOSE h \in H : \A g \in H : g <= h

\* re.finditer: the leftmost matches, one after the other, none overlapping
RECURSIVE FindIter(_, _, _)
FindIter(pattern, t, pos) ==
    IF pos > Len(t) THEN <<>>
    ELSE LET e == MatchEnd(pattern, t, pos)
         IN  IF e = 0 THEN FindIter(pattern, t, pos + 1)
             ELSE <<SubSeq(t, pos, e)>> \o FindIter(pattern, t, e + 1)

\* a in b, for strings
IsSubstring(a, b) ==
    \E i \in 0..(Len(b) - Len(a)) : SubSeq(b, i + 1, i + Len(a)) = a

\* the law_name branch: a name is added unless an entity so far contains it
RECURSIVE AddLawNames(_, _)
AddLawNames(entities, names) ==
    IF names = <<>> THEN entities
    ELSE AddLawNames(
             IF \E i \in 1..Len(entities) : IsSubstring(Head(names), entities[i].value)
             THEN entities
             ELSE Append(entities, [value |-> Head(names), type |-> "law"]),
             Tail(names))

\* deduplicate while preserving order
RECURSIVE Unique(_, _)
Unique(entities, unique) ==
    IF entities = <<>> THEN unique
    ELSE Unique(Tail(entities),
                IF \E i \in 1..Len(unique) : unique[i] = Head(entities)
                THEN unique ELSE Append(unique, Head(entities)))

\* QueryRouter._extract_entities
_extract_entities(text) ==
    LET full == FindIter("law_article", text, 1)
        arts == FindIter("article_only", text, 1)
        laws == FindIter("law_name", text, 1)
        first == [i \in 1..Len(full) |-> [value |-> full[i], type |-> "law_article"]]
        second == [i \in 1..Len(arts) |-> [value |-> arts[i], type |-> "article"]]
    IN  Unique(AddLawNames(first \o second, laws), <<>>)

\* route's call of _extract_entities on the routing query
ExtractEntities ==
    /\ pc = "prepared"
    /\ routing_query' =
          [routing_query EXCEPT !.entities = _extract_entities(routing_query.text)]
    /\ pc' = "extracted"
    /\ UNCHANGED <<fixed, outside, req, top_k, graph_mode, search_texts, routed,
                   graph_results, all_results, vector_results, idx, searches,
                   vector_best, filtered_results, final_results, reranked,
                   context, sources, calls, error>>

InitExtract ==
    /\ pc = "prepared"
    /\ \E t \in Texts :
          routing_query = [text |-> t, entities |-> <<>>, is_lookup |-> FALSE,
                           is_relationship |-> FALSE]
    /\ reranker = FALSE
    /\ graph_service = FALSE
    /\ use_graph = FALSE
    /\ req = NoReq
    /\ top_k = default_top_k
    /\ graph_mode = FALSE
    /\ search_texts = <<Text("query", 0)>>
    /\ routed = NoRoute
    /\ graph_results = <<>>
    /\ all_results = <<>>
    /\ vector_results = <<>>
    /\ idx = 0
    /\ searches = 0
    /\ vector_best = [c \in ChunkIds |-> NoScore]
    /\ filtered_results = <<>>
    /\ final_results = <<>>
    /\ reranked = FALSE
    /\ context = <<>>
    /\ sources = <<>>
    /\ translator = FALSE
    /\ use_multi_query = FALSE
    /\ use_hybrid_search = FALSE
    /\ sparse_embedding = FALSE
    /\ hybrid_store = FALSE
    /\ args = SampleArgs
    /\ llm = [translate |-> "ok", expand |-> CHOOSE x \in FailedExpansions : x.status = "raise"]
    /\ calls = NoCalls
    /\ error = "none"
    /\ pipeline = "GraphRAGPipeline"
    /\ OutsideIdle

SpecExtract == InitExtract /\ [][ExtractEntities]_vars

\* ---------------------------------------------------- query preparation alone
\* Step 1 of chat for every query of up to MaxQuery characters, every setting of
\* translator and use_multi_query, every override and every answer of the
\* translator's language model.
InitPrepare ==
    /\ pc = "start"
    /\ args \in {a \in ChatArgs : a.use_hybrid = "none"}
    /\ translator \in BOOLEAN
    /\ use_multi_query \in BOOLEAN
    /\ llm \in LLMs
    /\ reranker = FALSE
    /\ graph_service = FALSE
    /\ use_graph = FALSE
    /\ req = [top_k |-> 1, use_graph |-> "none"]
    /\ top_k = 1
    /\ graph_mode = FALSE
    /\ search_texts = <<>>
    /\ routing_query = NoQuery
    /\ routed = NoRoute
    /\ graph_results = <<>>
    /\ all_results = <<>>
    /\ vector_results = <<>>
    /\ idx = 0
    /\ searches = 0
    /\ vector_best = [c \in ChunkIds |-> NoScore]
    /\ filtered_results = <<>>
    /\ final_results = <<>>
    /\ reranked = FALSE
    /\ context = <<>>
    /\ sources = <<>>
    /\ use_hybrid_search = FALSE
    /\ sparse_embedding = FALSE
    /\ hybrid_store = FALSE
    /\ calls = NoCalls
    /\ error = "none"
    /\ pipeline = "GraphRAGPipeline"
    /\ OutsideIdle

SpecPrepare == InitPrepare /\ [][Prepare]_vars

\* ------------------------------------------------------------ embedding alone
\* Step 4 of chat for one to MaxSearchTexts search texts and every setting of
\* the hybrid components and of the use_hybrid override.
InitEmbed ==
    /\ pc = "graphed"
    /\ \E n \in 1..MaxSearchTexts :
          search_texts = Take(<<Text("translated", 0), Text("search_query", 1),
                                Text("search_query", 2)>>, n)
    /\ use_hybrid_search \in BOOLEAN
    /\ sparse_embedding \in BOOLEAN
    /\ hybrid_store \in BOOLEAN
    /\ \E h \in ToggleArgs : args = [SampleArgs EXCEPT !.use_hybrid = h]
    /\ reranker \in BOOLEAN
    /\ graph_service = FALSE
    /\ use_graph = FALSE
    /\ req = [top_k |-> 1, use_graph |-> "none"]
    /\ top_k = 1
    /\ graph_mode = FALSE
    /\ routing_query = NoQuery
    /\ routed = route(<<>>, FALSE, FALSE)
    /\ graph_results = <<>>
    /\ all_results = <<>>
    /\ vector_results = <<>>
    /\ idx = 0
    /\ searches = 0
    /\ vector_best = [c \in ChunkIds |-> NoScore]
    /\ filtered_results = <<>>
    /\ final_results = <<>>
    /\ reranked = FALSE
    /\ context = <<>>
    /\ sources = <<>>
    /\ translator = TRUE
    /\ use_multi_query = TRUE
    /\ llm \in {l \in SampleLLMs : l.expand.status = "ok"}
    /\ calls = [NoCalls EXCEPT !["translator_llm"] = 1]
    /\ error = "none"
    /\ pipeline = "GraphRAGPipeline"
    /\ OutsideIdle

SpecEmbed == InitEmbed /\ [][Embed]_vars

\* --------------------------------------------- a request from step 3 onward
\* chat from the graph search on, for routes with one and with two entities,
\* one search text, no reranker and top_k = 1.
GraphEntityLists == {<<"law">>, <<"law_article", "article">>}

InitGraph ==
    /\ pc = "routed"
    /\ \E e \in GraphEntityLists :
          /\ routing_query = [entities |-> e, is_lookup |-> FALSE,
                              is_relationship |-> FALSE]
          /\ routed = route(e, FALSE, FALSE)
    /\ graph_mode = TRUE
    /\ graph_service = TRUE
    /\ use_graph = TRUE
    /\ reranker = FALSE
    /\ req = [top_k |-> 1, use_graph |-> "none"]
    /\ top_k = 1
    /\ search_texts = <<Text("translated", 0)>>
    /\ graph_results = <<>>
    /\ all_results = <<>>
    /\ vector_results = <<>>
    /\ idx = 0
    /\ searches = 0
    /\ vector_best = [c \in ChunkIds |-> NoScore]
    /\ filtered_results = <<>>
    /\ final_results = <<>>
    /\ reranked = FALSE
    /\ context = <<>>
    /\ sources = <<>>
    /\ translator = TRUE
    /\ use_multi_query = TRUE
    /\ use_hybrid_search = TRUE
    /\ sparse_embedding = TRUE
    /\ hybrid_store = TRUE
    /\ args = SampleArgs
    /\ llm \in {l \in LLMs : /\ l.translate = "ok"
                             /\ l.expand.status = "ok"
                             /\ l.expand.translated
                             /\ l.expand.search_queries = 0
                             /\ ~l.expand.keywords}
    /\ calls = [NoCalls EXCEPT !["translator_llm"] = 1]
    /\ error = "none"
    /\ pipeline = "GraphRAGPipeline"
    /\ OutsideIdle

NextFromGraph ==
    \/ GraphSearch
    \/ Embed
    \/ VectorSearch
    \/ Fuse
    \/ FilterAndSort
    \/ Truncate
    \/ Generate

SpecGraph == InitGraph /\ [][NextFromGraph]_vars

\* ------------------------------------------------------------------ claims
Returned == pc = "done"

Merged == pc \in {"fused", "filtered", "final", "done"}

IsDescending(s) == \A i \in 1..(Len(s) - 1) : s[i].score >= s[i + 1].score

\* score of the graph candidate of chunk c, NoScore when the graph gave none
GraphScoreOf(c) ==
    LET S == {GraphCandidate(graph_results[i]).score :
                 i \in {j \in 1..Len(graph_results) :
                           ChunkOfArticle(graph_results[j].art) = c}}
    IN  IF S = {} THEN NoScore ELSE CHOOSE m \in S : \A x \in S : m >= x

\* C1: the chunk identifiers of the candidates behind the returned sources are
\* pairwise distinct, whatever the graph and vector retrievers returned.
C1_DistinctChunkIds ==
    Returned =>
        /\ Len(sources) = Len(final_results)
        /\ \A i, j \in 1..Len(sources) :
              i # j => /\ sources[i].payload.chunk # sources[j].payload.chunk
                       /\ final_results[i].id # final_results[j].id

\* a chunk came from the graph and from two vector searches, and two sources
\* were returned
C1_Witness ==
    /\ Returned
    /\ Len(sources) >= 2
    /\ searches >= 2
    /\ \E c \in ChunkIds :
          /\ GraphScoreOf(c) # NoScore
          /\ vector_best[c] # NoScore
          /\ \E i \in 1..Len(sources) : sources[i].payload.chunk = c

\* C2: after the merge every chunk id that occurred has one entry; it carries
\* the highest score among the graph candidate and all vector hits of that
\* chunk, and it is the graph entry unless a vector hit scored strictly higher.
C2_MaxMerge ==
    Merged =>
        \A c \in ChunkIds :
            LET g == GraphScoreOf(c)
                v == vector_best[c]
            IN  /\ c \in Keys(all_results) <=> (g # NoScore \/ v # NoScore)
                /\ \A i, j \in 1..Len(all_results) :
                      i # j => all_results[i].id # all_results[j].id
                /\ c \in Keys(all_results) =>
                      /\ Get(all_results, c).score = Max(g, v)
                      /\ Get(all_results, c).source =
                            IF g # NoScore /\ g >= v THEN "graph" ELSE "vector"

\* a graph candidate and a vector hit of the same chunk tie after two searches,
\* and the entry kept is the graph one
C2_Witness ==
    /\ pc = "fused"
    /\ searches >= 2
    /\ \E c \in ChunkIds :
          /\ GraphScoreOf(c) # NoScore
          /\ vector_best[c] = GraphScoreOf(c)
          /\ Get(all_results, c).source = "graph"
    /\ \E c \in ChunkIds :
          /\ GraphScoreOf(c) # NoScore
          /\ vector_best[c] > GraphScoreOf(c)
          /\ Get(all_results, c).source = "vector"

\* C3: with top_k >= 1 given, at most top_k sources are returned, with or
\* without reranker, also when the scoring call fails or no candidate has text.
C3_AtMostTopK ==
    (Returned /\ req.top_k >= 1) => Len(sources) <= req.top_k

\* a reranker whose scoring was not used had more candidates than top_k
C3_Witness ==
    /\ Returned
    /\ reranker
    /\ ~reranked
    /\ req.top_k >= 1
    /\ Len(filtered_results) > req.top_k
    /\ Len(sources) = req.top_k

\* C4: the sources are in descending score order: by rerank score when the
\* reranker rescored the candidates, by fused score without reranker.
C4_DescendingScore ==
    Returned =>
        /\ \A i \in 1..(Len(sources) - 1) : sources[i].score >= sources[i + 1].score
        /\ reranked =>
              /\ \A i \in 1..Len(final_results) : final_results[i].rerank_score # NoScore
              /\ \A i \in 1..(Len(final_results) - 1) :
                    final_results[i].rerank_score >= final_results[i + 1].rerank_score
        /\ ~reranker =>
              \A i \in 1..Len(sources) :
                  sources[i].score = Get(all_results, sources[i].payload.chunk).score

\* the reranker reversed the fused order of two candidates
C4_Witness ==
    /\ Returned
    /\ reranked
    /\ Len(sources) >= 2
    /\ sources[1].score > sources[2].score
    /\ final_results[1].original_score < final_results[2].original_score

\* C5: the k-th context block is numbered k and is built from the candidate the
\* k-th source is built from, and there are as many blocks as sources.
C5_CitationMatchesSource ==
    Returned =>
        /\ Len(context) = Len(sources)
        /\ \A k \in 1..Len(context) :
              /\ context[k].idx = k
              /\ context[k].payload = sources[k].payload
              /\ context[k].payload = PayloadOf(final_results[k])

\* two blocks of different chunks, in an order the reranker changed
C5_Witness ==
    /\ Returned
    /\ reranked
    /\ Len(context) >= 2
    /\ context[1].payload.chunk # context[2].payload.chunk
    /\ final_results[1].original_score < final_results[2].original_score

\* C6 as claimed: when a retriever returned a candidate at or above the
\* threshold, graph results without chunk_id included, sources is non-empty.
C6_NonEmptySources ==
    (/\ Returned
     /\ req.top_k >= 1
     /\ \/ \E i \in 1..Len(graph_results) :
              GraphCandidate(graph_results[i]).score >= min_score_threshold
        \/ \E c \in ChunkIds : vector_best[c] >= min_score_threshold)
    => sources # <<>>

\* C7 as claimed: candidates of equal score are in ascending chunk_id order in
\* the sorted list.
C7_TieBreakByChunkId ==
    pc \in {"filtered", "final", "done"} =>
        \A i, j \in 1..Len(filtered_results) :
            (i < j /\ filtered_results[i].score = filtered_results[j].score)
                => filtered_results[i].id < filtered_results[j].id

\* C8: _filter_and_sort_results returns the candidates at or above the
\* threshold in descending score order when there is one, else the first
\* min(3, n) candidates of the descending order of all n.
C8_FilterAndSort ==
    pc = "filtered" =>
        LET n == Len(all_results)
            above == {i \in 1..n : all_results[i].score >= min_score_threshold}
            out == filtered_results
            kept == {out[i].id : i \in 1..Len(out)}
        IN  /\ IsDescending(out)
            /\ \A i \in 1..Len(out) :
                  /\ out[i].id \in Keys(all_results)
                  /\ out[i] = Get(all_results, out[i].id)
            /\ \A i, j \in 1..Len(out) : i # j => out[i].id # out[j].id
            /\ above # {} => kept = {all_results[i].id : i \in above}
            /\ above = {} =>
                  /\ Len(out) = Min(FallbackTop, n)
                  /\ \A i \in 1..n : all_results[i].id \notin kept =>
                        \A k \in 1..Len(out) : all_results[i].score <= out[k].score

\* more than three candidates, none at the threshold: the top three are kept
C8_Witness ==
    /\ pc = "filtered"
    /\ Len(all_results) > FallbackTop
    /\ \A i \in 1..Len(all_results) : all_results[i].score < min_score_threshold
    /\ Len(filtered_results) = FallbackTop
    /\ filtered_results[1].score > filtered_results[FallbackTop].score

\* C9: route decides type and flags from (entities present, is_lookup,
\* is_relationship) as its table says; use_graph holds exactly when there are
\* entities, and one of use_graph, use_vector always holds.
C9_RouteTable ==
    pc \notin {"idle", "start", "prepared", "raised"} =>
        LET e == routing_query.entities # <<>>
            l == routing_query.is_lookup
            r == routing_query.is_relationship
        IN  /\ routed.entities = routing_query.entities
            /\ (e /\ l /\ ~r) => /\ routed.query_type = "entity_lookup"
                                 /\ routed.use_graph /\ ~routed.use_vector
            /\ (e /\ r) => /\ routed.query_type = "multi_hop"
                           /\ routed.use_graph /\ routed.use_vector
            /\ (e /\ ~l /\ ~r) => /\ routed.query_type = "hybrid"
                                  /\ routed.use_graph /\ routed.use_vector
            /\ ~e => /\ routed.query_type = "semantic"
                     /\ ~routed.use_graph /\ routed.use_vector
            /\ routed.use_graph <=> e
            /\ routed.use_graph \/ routed.use_vector

\* a query with entities, a lookup keyword and a relationship keyword
C9_Witness ==
    /\ pc = "routed"
    /\ routing_query.entities # <<>>
    /\ routing_query.is_lookup
    /\ routing_query.is_relationship
    /\ routed.query_type = "multi_hop"

\* C10 as claimed: for an ENTITY_LOOKUP route chat issues no vector-store or
\* hybrid-store search, and the candidates come from the graph only (stated
\* here for a pipeline whose graph service is available).
C10_NoVectorOnEntityLookup ==
    (routed.query_type = "entity_lookup" /\ graph_service) =>
        /\ searches = 0
        /\ \A i \in 1..Len(all_results) : all_results[i].source = "graph"

\* C11 as claimed: no extracted entity is a sub-span of an entity extracted
\* before it (a full reference 法第n条 yields no separate 第n条 and no separate
\* law name), and the list has no duplicates.
C11_NoSubSpanEntities ==
    pc = "extracted" =>
        LET e == routing_query.entities
        IN  /\ \A i, j \in 1..Len(e) : i # j => e[i] # e[j]
            /\ \A i, j \in 1..Len(e) :
                  i < j => ~IsSubstring(e[j].value, e[i].value)

\* step 1 is over, with search texts or with an exception
Prepared == pc \in {"prepared", "raised"}

\* step 1 went through get_all_search_texts
MultiQueryOn == multi_query_mode /\ use_multi_query /\ translator

\* C12 as claimed: for a query in the corpus language, preparing the search
\* texts issues no call to the translator's language model, in single-query
\* and in multi-query mode.
C12_NoModelCallForJapanese ==
    (pc = "prepared" /\ _is_japanese(args.query)) => calls["translator_llm"] = 0

\* C13 as claimed: preparation always yields at least one search text, the
\* primary first: exactly one when multi-query is off, at most three when it
\* is on, whatever the expansion returns (stated for a non-empty query).
C13_SearchTextCount ==
    (Prepared /\ args.query # <<>>) =>
        /\ pc = "prepared"
        /\ Len(search_texts) >= 1
        /\ Len(search_texts) <= MaxSearchTexts
        /\ ~MultiQueryOn => Len(search_texts) = 1
        /\ search_texts[1].src \in {"query", "translation", "translated"}

\* C14: _translate_query never raises; it returns the query when there is no
\* translator or the translator raises, and the translator's result otherwise.
C14_TranslateNeverRaises ==
    (Prepared /\ ~MultiQueryOn) =>
        /\ pc = "prepared"
        /\ search_texts =
              IF ~translator \/ translate(args.query, llm).raised
              THEN <<Text("query", 0)>>
              ELSE translate(args.query, llm).texts

\* the translator raised on a Vietnamese query and the query itself is used
C14_Witness ==
    /\ pc = "prepared"
    /\ ~MultiQueryOn
    /\ translator
    /\ ~_is_japanese(args.query)
    /\ llm.translate = "raise"
    /\ calls["translator_llm"] = 1
    /\ search_texts = <<Text("query", 0)>>

\* C15 as claimed: when the expansion call fails or returns malformed data the
\* plan is exactly the translated primary; the original query is used only
\* when the translation itself fails (stated for a non-empty query).
C15_FallbackIsTranslatedPrimary ==
    (/\ Prepared
     /\ MultiQueryOn
     /\ args.query # <<>>
     /\ llm.expand.status \in {"raise", "malformed"}) =>
        search_texts =
            IF translate(args.query, llm).raised THEN <<Text("query", 0)>>
            ELSE translate(args.query, llm).texts

\* step 4 is over
Embedded == pc \in {"search", "fused", "filtered", "final", "done"}

\* hybrid search is used by this request
HybridActive ==
    /\ args.use_hybrid = "on" \/ (args.use_hybrid = "none" /\ use_hybrid_search)
    /\ use_hybrid_search /\ sparse_embedding /\ hybrid_store

\* C16: a request makes exactly one dense embed_batch call for all search
\* texts and, when hybrid search is active, exactly one sparse embed_batch
\* call, none otherwise, however many search texts there are; before step 4 it
\* makes none.
C16_EmbedCalls ==
    /\ Embedded =>
          /\ calls["embed_dense"] = 1
          /\ calls["embed_sparse"] = IF HybridActive THEN 1 ELSE 0
    /\ pc \in {"start", "prepared", "routed", "graphed"} =>
          /\ calls["embed_dense"] = 0
          /\ calls["embed_sparse"] = 0

\* three search texts embedded for hybrid search with one call of each kind
C16_Witness ==
    /\ pc = "search"
    /\ Len(search_texts) = MaxSearchTexts
    /\ HybridActive
    /\ calls["embed_dense"] = 1
    /\ calls["embed_sparse"] = 1

\* step 3 is over
Graphed == pc \in {"graphed", "search", "fused", "filtered", "final", "done"}

\* C17: a failure of a graph query never leaves the graph service: no request
\* ends with an exception of the graph search, every entity of the route is
\* searched whether or not an earlier one failed, and chat goes on to the
\* vector retrieval and the generation.
C17_GraphFailureContained ==
    /\ error # "graph"
    /\ pc = "raised" => error \in {"prepare", "vector"}
    /\ (Graphed /\ GraphGuard) =>
          /\ calls["graph_query"] = Len(routed.entities)
          /\ calls["graph_query_failed"] <= calls["graph_query"]
          /\ calls["graph_query_failed"] = Len(routed.entities) => graph_results = <<>>

\* of two entities one failed, the other gave a result, and chat returned an
\* answer built on it
C17_Witness ==
    /\ Returned
    /\ Len(routed.entities) = 2
    /\ calls["graph_query"] = 2
    /\ calls["graph_query_failed"] = 1
    /\ graph_results # <<>>
    /\ searches = 1
    /\ calls["llm_generate"] = 1
    /\ \E i \in 1..Len(sources) : sources[i].payload.source = "graph"

\* C18 as claimed: a request fails on a vector search only when the searches
\* of all its phrasings were performed and all of them failed.
C18_SingleSearchFailureTolerated ==
    error = "vector" =>
        /\ searches = Len(search_texts)
        /\ idx = 1

\* C19 as claimed: when no retriever returned a candidate, chat ends with an
\* error: the generator is not called and no answer is returned.
C19_RetrievalEmptyIsFatal ==
    (Merged /\ all_results = <<>>) =>
        /\ pc # "done"
        /\ calls["llm_generate"] = 0

\* C20: every candidate rerank rescored has original_score equal to its score
\* before reranking and score equal to rerank_score over the highest
\* rerank_score of the call; the first returned score is exactly 1.0, every
\* score lies in (0, 1], and the input candidates are left as they were.
C20_RerankScores ==
    (reranked /\ pc \in {"final", "done"}) =>
        /\ final_results # <<>>
        /\ final_results[1].score = Scale
        /\ \A i \in 1..Len(final_results) :
              LET d == final_results[i]
              IN  /\ d.original_score = Get(all_results, d.id).score
                  /\ d.rerank_score \in RerankProbs
                  /\ d.score = (d.rerank_score * Scale) \div final_results[1].rerank_score
                  /\ d.score > 0
                  /\ d.score <= Scale
        /\ \A i \in 1..Len(filtered_results) :
              /\ filtered_results[i] = Get(all_results, filtered_results[i].id)
              /\ filtered_results[i].rerank_score = NoScore
              /\ filtered_results[i].original_score = NoScore

\* two rescored candidates returned, the second with a lower rerank score, and
\* the first one's score before reranking was not the best
C20_Witness ==
    /\ Returned
    /\ reranked
    /\ Len(final_results) >= 2
    /\ final_results[1].score = Scale
    /\ final_results[2].score < Scale
    /\ final_results[1].original_score < final_results[2].original_score
    /\ final_results[1].original_score # final_results[1].rerank_score

\* C21 as claimed: the candidates rerank does not rescore for want of text
\* follow the rescored ones in its output, unchanged, and none of them is lost
\* when top_k is at least the number of input candidates.
C21_EmptyTextKept ==
    (reranked /\ pc \in {"final", "done"} /\ top_k >= Len(filtered_results)) =>
        /\ Len(final_results) = Len(filtered_results)
        /\ \A i \in 1..Len(filtered_results) :
              ~HasText(filtered_results[i]) =>
                  \E j \in 1..Len(final_results) :
                      /\ final_results[j] = filtered_results[i]
                      /\ \A k \in 1..Len(final_results) :
                            final_results[k].rerank_score # NoScore => k < j

\* ------------------------------------------- retry_qdrant (db/qdrant.py 40-47)
\* what one attempt of client.query_points ends with: a result, or an
\* exception of the named class
AttemptOutcomes == {"ok", "TimeoutError", "ConnectionError", "OSError",
                    "ValueError"}

QdrantOps == {"search", "hybrid_search"}

retry_any_exception(outcome) == outcome # "ok"

\* retry_if_exception_type((TimeoutError, ConnectionError, OSError))
retry_if_exception_type(outcome) ==
    outcome \in {"TimeoutError", "ConnectionError", "OSError"}

\* a decorated operation is called
QdrantCall ==
    /\ qdrant_call.state = "idle"
    /\ \E op \in QdrantOps :
          qdrant_call' = [NoCall EXCEPT !.op = op, !.state = "calling"]
    /\ UNCHANGED <<chat_vars, loader, agent, cancel_requested, collected>>

\* one attempt and tenacity's decision on it: return the result, raise the
\* exception when it is not retried or when the attempts are used up
\* (reraise=True hands the caller the exception itself), sleep otherwise
QdrantAttempt ==
    /\ qdrant_call.state = "calling"
    /\ \E outcome \in AttemptOutcomes :
          LET attempts == Append(qdrant_call.attempts, outcome)
              attempt_number == Len(attempts)
          IN  qdrant_call' =
                 IF outcome = "ok"
                 THEN [qdrant_call EXCEPT !.attempts = attempts,
                                          !.state = "returned",
                                          !.result = attempt_number]
                 ELSE IF ~retry_if_exception_type(outcome)
                         \/ attempt_number >= stop_after_attempt
                 THEN [qdrant_call EXCEPT !.attempts = attempts,
                                          !.state = "raised",
                                          !.raised = outcome]
                 ELSE [qdrant_call EXCEPT !.attempts = attempts,
                                          !.state = "sleeping"]
    /\ UNCHANGED <<chat_vars, loader, agent, cancel_requested, collected>>

\* wait_exponential has elapsed: the next attempt starts
QdrantSleep ==
    /\ qdrant_call.state = "sleeping"
    /\ qdrant_call' = [qdrant_call EXCEPT !.state = "calling"]
    /\ UNCHANGED <<chat_vars, loader, agent, cancel_requested, collected>>

\* the caller has the result or the exception
QdrantDone ==
    /\ qdrant_call.state \in {"returned", "raised"}
    /\ qdrant_call' = NoCall
    /\ UNCHANGED <<chat_vars, loader, agent, cancel_requested, collected>>

NextQdrant == QdrantCall \/ QdrantAttempt \/ QdrantSleep \/ QdrantDone

SpecQdrant == Init /\ [][NextQdrant]_vars

\* C22: a vector-store operation is attempted at most 3 times; only a
\* failure of a transient class is followed by another attempt, and it is
\* while fewer than 3 attempts were made; the third transient failure and
\* any other failure are raised as they are; a success ends the call with the
\* result of that attempt.
C22_RetryPolicy ==
    LET a == qdrant_call.attempts
        n == Len(a)
        Transient == {"TimeoutError", "ConnectionError", "OSError"}
    IN  /\ n <= 3
        /\ \A i \in 1..(n - 1) : a[i] \in Transient
        /\ qdrant_call.state = "calling" => n < 3
        /\ qdrant_call.state = "sleeping" => n >= 1 /\ n < 3 /\ a[n] \in Transient
        /\ qdrant_call.state = "raised" =>
              /\ n >= 1
              /\ a[n] # "ok"
              /\ qdrant_call.raised = a[n]
              /\ a[n] \in Transient => n = 3
        /\ qdrant_call.state = "returned" =>
              /\ n >= 1
              /\ a[n] = "ok"
              /\ qdrant_call.result = n
        /\ (n >= 1 /\ a[n] = "ok") => qdrant_call.state = "returned"
        /\ (n >= 1 /\ a[n] \notin Transient \cup {"ok"}) =>
              qdrant_call.state = "raised"

\* the third transient failure in a row has been raised
C22_Witness ==
    /\ qdrant_call.state = "raised"
    /\ Len(qdrant_call.attempts) = 3
    /\ qdrant_call.raised = "TimeoutError"
    /\ qdrant_call.op = "hybrid_search"

\* ------------------------------------------------- chat on an empty query
EmptyQueryArgs == [SampleArgs EXCEPT !.query = <<>>]

\* a pipeline without reranker and graph service that is asked the sample
\* query or the empty one
InitInput ==
    /\ pc = "idle"
    /\ reranker = FALSE
    /\ graph_service = FALSE
    /\ use_graph = FALSE
    /\ req = NoReq
    /\ top_k = 0
    /\ graph_mode = FALSE
    /\ search_texts = <<>>
    /\ routing_query = NoQuery
    /\ routed = NoRoute
    /\ graph_results = <<>>
    /\ all_results = <<>>
    /\ vector_results = <<>>
    /\ idx = 0
    /\ searches = 0
    /\ vector_best = [c \in ChunkIds |-> NoScore]
    /\ filtered_results = <<>>
    /\ final_results = <<>>
    /\ reranked = FALSE
    /\ context = <<>>
    /\ sources = <<>>
    /\ translator = TRUE
    /\ use_multi_query = TRUE
    /\ use_hybrid_search = TRUE
    /\ sparse_embedding = TRUE
    /\ hybrid_store = TRUE
    /\ args \in {SampleArgs, EmptyQueryArgs}
    /\ llm \in SampleLLMs
    /\ calls = NoCalls
    /\ error = "none"
    /\ pipeline = "GraphRAGPipeline"
    /\ OutsideIdle

NextInput ==
    \/ ChatStart
    \/ Prepare
    \/ Route
    \/ GraphSkip
    \/ Embed
    \/ VectorSearch
    \/ Fuse
    \/ FilterAndSort
    \/ Truncate
    \/ Generate
    \/ Return
    \/ Raise

SpecInput == InitInput /\ [][NextInput]_vars

\* C23 as claimed: a chat call on the empty query makes no vector search and
\* no generator call and returns no answer.
C23_EmptyQueryRejected ==
    args.query = <<>> =>
        /\ searches = 0
        /\ calls["llm_generate"] = 0
        /\ pc # "done"

\* ------------------------------------------------------ context rendering
MaxContext == 2

PipelineClasses == {"RAGPipeline", "GraphRAGPipeline"}

\* payloads by what _build_context reads of them; "" is an absent or empty
\* field
ContextPayloads == [law_title : {"", "L"}, article_title : {"", "A"},
                    text : {"", "t"}, text_with_context : {"", "c"}]

DigitChars == <<"0", "1", "2", "3", "4", "5", "6", "7", "8", "9">>

\* str(idx) as a sequence of characters
RECURSIVE Str(_)
Str(n) == IF n < 10 THEN <<DigitChars[n + 1]>>
          ELSE Str(n \div 10) \o <<DigitChars[(n % 10) + 1]>>

\* a string inside an f-string: nothing when it is empty
Chars(s) == IF s = "" THEN <<>> ELSE <<s>>

\* payload.get("text_with_context") or payload.get("text", "")
ContextText(payload) ==
    IF payload.text_with_context # "" THEN payload.text_with_context
    ELSE payload.text

\* one block of BasePipeline._build_context (base.py 224-239); "{" and "}"
\* stand for the lenticular brackets U+3010 and U+3011 around the titles
BaseBlock(k, payload) ==
    IF payload.law_title # "" /\ payload.article_title # ""
    THEN <<"[">> \o Str(k) \o <<"]", "{", payload.law_title, " ",
           payload.article_title, "}", "\n">> \o Chars(ContextText(payload))
    ELSE <<"[">> \o Str(k) \o <<"]", " ">> \o Chars(ContextText(payload))

\* one block of RAGPipeline._build_context (rag.py 263-277)
RAGBlock(payload) ==
    IF payload.law_title # "" /\ payload.article_title # ""
    THEN <<"{", payload.law_title, " ", payload.article_title, "}", "\n">>
         \o Chars(ContextText(payload))
    ELSE Chars(ContextText(payload))

\* _build_context of the class of the pipeline: GraphRAGPipeline inherits
\* BasePipeline's, RAGPipeline defines its own
BuildContextOf(class, results) ==
    IF class = "RAGPipeline"
    THEN [i \in 1..Len(results) |-> RAGBlock(results[i])]
    ELSE [i \in 1..Len(results) |-> BaseBlock(i, results[i])]

BuildContext ==
    /\ pc = "results"
    /\ context' = BuildContextOf(pipeline, final_results)
    /\ pc' = "context"
    /\ UNCHANGED <<fixed, outside, req, top_k, graph_mode, search_texts,
                   routing_query, routed, graph_results, all_results,
                   vector_results, idx, searches, vector_best,
                   filtered_results, final_results, reranked, sources, calls,
                   error>>

InitContext ==
    /\ pc = "results"
    /\ pipeline \in PipelineClasses
    /\ final_results \in SeqsUpTo(ContextPayloads, MaxContext)
    /\ reranker = FALSE
    /\ graph_service = FALSE
    /\ use_graph = FALSE
    /\ req = NoReq
    /\ top_k = default_top_k
    /\ graph_mode = FALSE
    /\ search_texts = <<>>
    /\ routing_query = NoQuery
    /\ routed = NoRoute
    /\ graph_results = <<>>
    /\ all_results = <<>>
    /\ vector_results = <<>>
    /\ idx = 0
    /\ searches = 0
    /\ vector_best = [c \in ChunkIds |-> NoScore]
    /\ filtered_results = <<>>
    /\ reranked = FALSE
    /\ context = <<>>
    /\ sources = <<>>
    /\ translator = FALSE
    /\ use_multi_query = FALSE
    /\ use_hybrid_search = FALSE
    /\ sparse_embedding = FALSE
    /\ hybrid_store = FALSE
    /\ args = SampleArgs
    /\ llm \in SampleLLMs
    /\ calls = NoCalls
    /\ error = "none"
    /\ OutsideIdle

SpecContext == InitContext /\ [][BuildContext]_vars

\* the number a block opens with between "[" and "]", 0 when it opens
\* otherwise
RECURSIVE ReadNumber(_, _, _)
ReadNumber(block, p, acc) ==
    IF p > Len(block) THEN 0
    ELSE IF block[p] = "]" THEN acc
    ELSE IF \E d \in 1..10 : DigitChars[d] = block[p]
    THEN ReadNumber(block, p + 1,
                    10 * acc + (CHOOSE d \in 1..10 : DigitChars[d] = block[p]) - 1)
    ELSE 0

ParsePrefix(block) ==
    IF block # <<>> /\ block[1] = "[" THEN ReadNumber(block, 2, 0) ELSE 0

\* C24 as claimed: whatever the class of the pipeline, _build_context gives
\* one block per result in input order, block k reads "[k]", then either the
\* bracketed titles, a newline and the text, or a space and the text, and the
\* number read back from block k is k.
C24_NumberedBlocks ==
    pc = "context" =>
        /\ Len(context) = Len(final_results)
        /\ \A k \in 1..Len(final_results) :
              LET payload == final_results[k]
                  text == IF payload.text_with_context # ""
                          THEN payload.text_with_context ELSE payload.text
              IN  /\ context[k] =
                        IF payload.law_title # "" /\ payload.article_title # ""
                        THEN <<"[">> \o Str(k) \o <<"]", "{", payload.law_title,
                               " ", payload.article_title, "}", "\n">>
                             \o Chars(text)
                        ELSE <<"[">> \o Str(k) \o <<"]", " ">> \o Chars(text)
                  /\ ParsePrefix(context[k]) = k

\* --------------------------------------------- lazily built shared handles
\* the module or class attribute that holds the handle: _reranker_model
\* (reranker.py), SparseEmbeddingService._model (sparse_embedding.py),
\* _graph_service (graph_service.py), Neo4jClient._instance (neo4j_client.py)
Handles == {"_reranker_model", "_model", "_graph_service", "_instance"}

\* the process starts to use one of the handles; it is None
LoadStart ==
    /\ loader.handle = "none"
    /\ \E h \in Handles : loader' = [NoLoad EXCEPT !.handle = h]
    /\ UNCHANGED <<chat_vars, qdrant_call, agent, cancel_requested, collected>>

\* thread t asks for the handle and tests `is None`; no lock is taken
LoadCheck(t) ==
    /\ loader.handle # "none"
    /\ loader.threads[t].pc = "idle"
    /\ loader' = [loader EXCEPT !.threads[t].pc =
                     IF loader.instance = 0 THEN "construct" ELSE "return"]
    /\ UNCHANGED <<chat_vars, qdrant_call, agent, cancel_requested, collected>>

\* thread t builds the object (the model load, the driver connection)
LoadConstruct(t) ==
    /\ loader.threads[t].pc = "construct"
    /\ loader' = [loader EXCEPT !.constructed = @ + 1,
                                !.threads[t].new = loader.constructed + 1,
                                !.threads[t].pc = "assign"]
    /\ UNCHANGED <<chat_vars, qdrant_call, agent, cancel_requested, collected>>

\* thread t stores what it built in the shared attribute
LoadAssign(t) ==
    /\ loader.threads[t].pc = "assign"
    /\ loader' = [loader EXCEPT !.instance = loader.threads[t].new,
                                !.threads[t].pc = "return"]
    /\ UNCHANGED <<chat_vars, qdrant_call, agent, cancel_requested, collected>>

\* thread t reads the shared attribute and hands it to its caller
LoadReturn(t) ==
    /\ loader.threads[t].pc = "return"
    /\ loader' = [loader EXCEPT !.threads[t].got = loader.instance,
                                !.threads[t].pc = "done"]
    /\ UNCHANGED <<chat_vars, qdrant_call, agent, cancel_requested, collected>>

NextLoad ==
    \/ LoadStart
    \/ \E t \in Threads : LoadCheck(t)
    \/ \E t \in Threads : LoadConstruct(t)
    \/ \E t \in Threads : LoadAssign(t)
    \/ \E t \in Threads : LoadReturn(t)

SpecLoad == Init /\ [][NextLoad]_vars

\* C25 as claimed: a shared handle is built at most once, and all the threads
\* that have got it hold the same object.
C25_ConstructedOnce ==
    /\ loader.constructed <= 1
    /\ \A t, u \in Threads :
          (loader.threads[t].pc = "done" /\ loader.threads[u].pc = "done") =>
              loader.threads[t].got = loader.threads[u].got

\* ------------------------------------------------------------ cancellation
\* The caller gives up while chat is between the embedding and the return of
\* the first vector search.  The route awaits nothing while pipeline.chat
\* runs (api/routes.py 100-105) and chat reads no cancellation signal: the
\* request is noted outside and chat goes on.
Cancel ==
    /\ pc = "search"
    /\ searches = 0
    /\ ~cancel_requested
    /\ cancel_requested' = TRUE
    /\ UNCHANGED <<chat_vars, qdrant_call, loader, agent, collected>>

NextCancel ==
    \/ ChatStart
    \/ Prepare
    \/ Route
    \/ GraphSkip
    \/ Embed
    \/ Cancel
    \/ VectorSearch
    \/ Fuse
    \/ FilterAndSort
    \/ Truncate
    \/ Generate

SpecCancel == InitInput /\ [][NextCancel]_vars

\* C26 as claimed: once the caller has cancelled between the embedding and
\* the first vector search result, the generator is not called and no answer
\* is returned.
C26_CancelStopsChat ==
    cancel_requested =>
        /\ calls["llm_generate"] = 0
        /\ pc # "done"

\* C27: no step of chat changes what the requests share: the fields of the
\* pipeline, its components, and the caller's arguments with the filters
\* mapping.
C27_SharedStateUnchanged == [][fixed' = fixed]_vars

\* a call has completed in which the route switched the graph mode off while
\* the pipeline's default is on
C27_Witness ==
    /\ pc = "done"
    /\ use_graph
    /\ routed.query_type = "semantic"
    /\ ~graph_mode
    /\ args.filters = Filters

\* C28 as claimed, for the graph toggle: a request that passes use_graph=False
\* issues no graph query, whatever the pipeline's default and the route.
C28_GraphToggleDecides ==
    req.use_graph = "off" => calls["graph_query"] = 0

\* ------------------------------------------- the self-correcting agent graph
MaxAgentDocs == 3

\* documents[:10] of grade_documents_node
GradeTop == 10

\* what the language model answers for one document, or that the call raises
GradeReplies == {"relevant", "not_relevant", "other", "raise"}

\* grade_documents_node, one document: "relevant" when the reply holds
\* "relevant" and no "not", and when the call raised
GradeOf(reply) == IF reply \in {"relevant", "raise"} THEN "relevant"
                  ELSE "not_relevant"

RelevantCount(grades) ==
    Cardinality({i \in 1..Len(grades) : grades[i] = "relevant"})

should_rewrite_late(grades, rewrite_count) ==
    IF RelevantCount(grades) >= 2 \/ rewrite_count > 2 THEN "rerank"
    ELSE "rewrite"

\* the conditional edge after grade
should_rewrite(grades, rewrite_count) ==
    IF RelevantCount(grades) >= 2 \/ rewrite_count >= 2 THEN "rerank"
    ELSE "rewrite"

Ran(node) == [agent.runs EXCEPT ![node] = @ + 1]

\* LegalRAGAgent.chat: initial_state has rewrite_count 0; START -> translate
AgentStart ==
    /\ agent.node = "none"
    /\ agent' = [NoAgent EXCEPT !.node = "translate"]
    /\ UNCHANGED <<chat_vars, qdrant_call, loader, cancel_requested,
                   collected>>

translate_node ==
    /\ agent.node = "translate"
    /\ agent' = [agent EXCEPT !.runs = Ran("translate"), !.node = "retrieve"]
    /\ UNCHANGED <<chat_vars, qdrant_call, loader, cancel_requested,
                   collected>>

\* the model keeps the number of documents retrieved
retrieve_node ==
    /\ agent.node = "retrieve"
    /\ \E n \in 0..MaxAgentDocs :
          agent' = [agent EXCEPT !.documents = n, !.runs = Ran("retrieve"),
                                 !.node = "grade"]
    /\ UNCHANGED <<chat_vars, qdrant_call, loader, cancel_requested,
                   collected>>

\* grade_documents_node and the conditional edge should_rewrite
grade_documents_node ==
    /\ agent.node = "grade"
    /\ \E replies \in [1..Min(agent.documents, GradeTop) -> GradeReplies] :
          LET grades == [i \in 1..Len(replies) |-> GradeOf(replies[i])]
          IN  agent' = [agent EXCEPT
                           !.document_grades = grades,
                           !.runs = Ran("grade"),
                           !.node = should_rewrite(grades, agent.rewrite_count)]
    /\ UNCHANGED <<chat_vars, qdrant_call, loader, cancel_requested,
                   collected>>

\* rewrite_query_node; the edge rewrite -> retrieve
rewrite_query_node ==
    /\ agent.node = "rewrite"
    /\ agent' = [agent EXCEPT !.rewrite_count = @ + 1,
                              !.runs = Ran("rewrite"),
                              !.node = "retrieve"]
    /\ UNCHANGED <<chat_vars, qdrant_call, loader, cancel_requested,
                   collected>>

rerank_node ==
    /\ agent.node = "rerank"
    /\ agent' = [agent EXCEPT !.runs = Ran("rerank"), !.node = "generate"]
    /\ UNCHANGED <<chat_vars, qdrant_call, loader, cancel_requested,
                   collected>>

generate_node ==
    /\ agent.node = "generate"
    /\ agent' = [agent EXCEPT !.runs = Ran("generate"), !.node = "END"]
    /\ UNCHANGED <<chat_vars, qdrant_call, loader, cancel_requested,
                   collected>>

NextAgent ==
    \/ AgentStart
    \/ translate_node
    \/ retrieve_node
    \/ grade_documents_node
    \/ rewrite_query_node
    \/ rerank_node
    \/ generate_node

\* graph.invoke runs the enabled node to its return, one node at a time
SpecAgent == Init /\ [][NextAgent]_vars /\ WF_vars(NextAgent)

\* C29: in a run of the agent the rewrite node runs at most 2 times and
\* retrieve and grade at most 3 times each; rewrite is entered only with
\* fewer than 2 relevant grades and fewer than 2 rewrites done; and a started
\* run reaches rerank, from rerank generate, and from generate the end.
C29_BoundedSelfCorrection ==
    /\ [](/\ agent.runs["rewrite"] <= 2
          /\ agent.runs["retrieve"] <= 3
          /\ agent.runs["grade"] <= 3
          /\ agent.node = "rewrite" =>
                /\ RelevantCount(agent.document_grades) < 2
                /\ agent.rewrite_count < 2
                /\ agent.runs["rewrite"] < 2)
    /\ (agent.node = "translate") ~> (agent.node = "rerank")
    /\ (agent.node = "rerank") ~> (agent.node = "generate")
    /\ (agent.node = "generate") ~> (agent.node = "END")

\* a run that rewrote the query twice has ended
C29_Witness ==
    /\ agent.node = "END"
    /\ agent.runs["rewrite"] = 2
    /\ agent.runs["retrieve"] = 3
    /\ agent.runs["grade"] = 3
    /\ RelevantCount(agent.document_grades) < 2

\* ------------------------------------- _graph_search, lookup by lookup
\* limit and depth arguments of _graph_search's lookups (graph_rag.py 221-233)
RelatedLimit == 3
RelatedDepth == 2
LawKeywordLimit == 5
ArticleKeywordLimit == 3

\* relevance of a related article: 0.95 ** distance
RECURSIVE RelevanceRelated(_)
RelevanceRelated(distance) ==
    IF distance = 0 THEN Scale
    ELSE (95 * RelevanceRelated(distance - 1)) \div 100

\* rows of find_related_articles for a start article: other articles with the
\* length of the path, distinct rows in order of distance, at most limit
RelatedRows(start) ==
    UNION {{rows \in [1..k -> [art : Articles \ {start}, distance : 1..RelatedDepth]] :
               /\ \A i, j \in 1..k : i < j => rows[i].distance <= rows[j].distance
               /\ \A i, j \in 1..k : i # j => rows[i] # rows[j]} :
           k \in 0..Min(RelatedLimit, MaxGraph)}

KeywordResults(limit) ==
    SeqsUpTo([art : Articles, relevance : {RelevanceKeyword}], Min(limit, MaxGraph))

\* what the loop body of _graph_search appends for one entity, and the
\* number of graph queries it makes: find_article and, when it finds the
\* article, find_related_articles; one search_by_keyword otherwise
EntityResults(entity_type) ==
    IF entity_type = "law_article"
    THEN {[results |-> <<>>, queries |-> 1]} \cup
         UNION {{[results |-> <<[art |-> a, relevance |-> RelevanceDirect]>> \o
                     [i \in 1..Len(rows) |->
                         [art |-> rows[i].art,
                          relevance |-> RelevanceRelated(rows[i].distance)]],
                  queries |-> 2] :
                 rows \in RelatedRows(a)} : a \in Articles}
    ELSE IF entity_type = "law"
    THEN {[results |-> r, queries |-> 1] : r \in KeywordResults(LawKeywordLimit)}
    ELSE {[results |-> r, queries |-> 1] : r \in KeywordResults(ArticleKeywordLimit)}

\* what the loop over the entities can collect, from entity i on
RECURSIVE CollectFrom(_, _)
CollectFrom(entities, i) ==
    IF i > Len(entities) THEN {[results |-> <<>>, queries |-> 0]}
    ELSE {[results |-> a.results \o b.results, queries |-> a.queries + b.queries] :
             a \in EntityResults(entities[i]),
             b \in CollectFrom(entities, i + 1)}

\* _graph_search up to its deduplication
Collect ==
    /\ pc = "routed"
    /\ GraphGuard
    /\ \E got \in CollectFrom(routed.entities, 1) :
          /\ collected' = got.results
          /\ calls' = [calls EXCEPT !["graph_query"] = @ + got.queries]
    /\ pc' = "collected"
    /\ UNCHANGED <<fixed, qdrant_call, loader, agent, cancel_requested, req,
                   top_k, graph_mode, search_texts, routing_query, routed,
                   graph_results, all_results, vector_results, idx, searches,
                   vector_best, filtered_results, final_results, reranked,
                   context, sources, error>>

\* the deduplication, the return, and chat's insertion of the graph results
GraphReturn ==
    /\ pc = "collected"
    /\ graph_results' = DedupArticles(collected, <<>>)
    /\ all_results' = InsertGraph(all_results, graph_results')
    /\ pc' = "graphed"
    /\ UNCHANGED <<fixed, outside, req, top_k, graph_mode, search_texts,
                   routing_query, routed, vector_results, idx, searches,
                   vector_best, filtered_results, final_results, reranked,
                   context, sources, calls, error>>

CollectEntityLists == {<<"law">>, <<"law_article", "article">>,
                       <<"law_article", "law_article">>}

InitCollect ==
    /\ pc = "routed"
    /\ \E e \in CollectEntityLists :
          /\ routing_query = [entities |-> e, is_lookup |-> FALSE,
                              is_relationship |-> FALSE]
          /\ routed = route(e, FALSE, FALSE)
    /\ graph_mode = TRUE
    /\ graph_service = TRUE
    /\ use_graph = TRUE
    /\ reranker = FALSE
    /\ req = [top_k |-> 1, use_graph |-> "none"]
    /\ top_k = 1
    /\ search_texts = <<Text("translated", 0)>>
    /\ graph_results = <<>>
    /\ all_results = <<>>
    /\ vector_results = <<>>
    /\ idx = 0
    /\ searches = 0
    /\ vector_best = [c \in ChunkIds |-> NoScore]
    /\ filtered_results = <<>>
    /\ final_results = <<>>
    /\ reranked = FALSE
    /\ context = <<>>
    /\ sources = <<>>
    /\ translator = TRUE
    /\ use_multi_query = TRUE
    /\ use_hybrid_search = TRUE
    /\ sparse_embedding = TRUE
    /\ hybrid_store = TRUE
    /\ args = SampleArgs
    /\ llm \in {l \in LLMs : /\ l.translate = "ok"
                             /\ l.expand.status = "ok"
                             /\ l.expand.translated
                             /\ l.expand.search_queries = 0
                             /\ ~l.expand.keywords}
    /\ calls = [NoCalls EXCEPT !["translator_llm"] = 1]
    /\ error = "none"
    /\ pipeline = "GraphRAGPipeline"
    /\ OutsideIdle

SpecCollect == InitCollect /\ [][Collect \/ GraphReturn]_vars

\* C30 as claimed: of the results _graph_search collected for one article the
\* retained one has the highest relevance, and the article's candidate is
\* scored graph_weight times that relevance.
C30_BestRelevanceRetained ==
    pc = "graphed" =>
        \A i \in 1..Len(collected) :
            \E j \in 1..Len(graph_results) :
                /\ graph_results[j].art = collected[i].art
                /\ graph_results[j].relevance >= collected[i].relevance
                /\ ChunkOfArticle(collected[i].art) # NoChunk =>
                      \E c \in 1..Len(all_results) :
                          /\ all_results[c].id = ChunkOfArticle(collected[i].art)
                          /\ all_results[c].score >=
                                (collected[i].relevance * graph_weight) \div Scale

====
